---- MODULE Spec2Model ----
(***************************************************************************)
(* A model of chess-board-renderer (src/main.go): the notation validator   *)
(* `validate`, the request handler `render`, and the data they share.      *)
(*                                                                         *)
(* Strings are sequences of one-character strings.  Go's zero-based        *)
(* arrays are functions over 0..7; Go slices are TLA+ sequences.  Pointers *)
(* are heap addresses, 0 is nil.  An optional value (error or nil) is a    *)
(* sequence of length 0 or 1.                                              *)
(***************************************************************************)
EXTENDS Integers, Sequences, FiniteSets, TLC

\* ------------------------------------------------------------ bounds

\* Concurrent invocations of render the model has room for.
NumReq == 2

\* Segments of a base notation that an input may replace by a pool segment.
MaxEdits == 1

\* ------------------------------------------------ the Piece vocabulary

Empty == 0
WhitePawn == 1
WhiteKnight == 2
WhiteBishop == 3
WhiteRook == 4
WhiteQueen == 5
WhiteKing == 6
BlackPawn == 7
BlackKnight == 8
BlackBishop == 9
BlackRook == 10
BlackQueen == 11
BlackKing == 12

\* The nil image.Image, and the images loadImage returns at start-up.
NilImage == "nil"

\* var pieceImages = map[Piece]image.Image{...}
PieceImagesAllButKing ==
  [p \in (WhitePawn..BlackKing) \ {BlackKing} |->
     CASE p = WhitePawn -> "pawn_white.png"
       [] p = WhiteKnight -> "knight_white.png"
       [] p = WhiteBishop -> "bishop_white.png"
       [] p = WhiteRook -> "rook_white.png"
       [] p = WhiteQueen -> "queen_white.png"
       [] p = WhiteKing -> "king_white.png"
       [] p = BlackPawn -> "pawn_black.png"
       [] p = BlackKnight -> "knight_black.png"
       [] p = BlackBishop -> "bishop_black.png"
       [] p = BlackRook -> "rook_black.png"
       [] p = BlackQueen -> "queen_black.png"]

PieceImages ==
  (BlackKing :> "king_black.png") @@ PieceImagesAllButKing

\* A vocabulary in which two letters were exchanged.
PieceCharsSwapped ==
  [c \in {"P", "N", "B", "R", "Q", "K", "p", "n", "b", "r", "q", "k"} |->
     CASE c = "P" -> WhitePawn
       [] c = "N" -> WhiteKnight
       [] c = "B" -> WhiteBishop
       [] c = "R" -> WhiteRook
       [] c = "Q" -> WhiteKing
       [] c = "K" -> WhiteQueen
       [] c = "p" -> BlackPawn
       [] c = "n" -> BlackKnight
       [] c = "b" -> BlackBishop
       [] c = "r" -> BlackRook
       [] c = "q" -> BlackQueen
       [] c = "k" -> BlackKing]

\* var pieceChars = map[rune]Piece{...}
PieceChars ==
  [c \in {"P", "N", "B", "R", "Q", "K", "p", "n", "b", "r", "q", "k"} |->
     CASE c = "P" -> WhitePawn
       [] c = "N" -> WhiteKnight
       [] c = "B" -> WhiteBishop
       [] c = "R" -> WhiteRook
       [] c = "Q" -> WhiteQueen
       [] c = "K" -> WhiteKing
       [] c = "p" -> BlackPawn
       [] c = "n" -> BlackKnight
       [] c = "b" -> BlackBishop
       [] c = "r" -> BlackRook
       [] c = "q" -> BlackQueen
       [] c = "k" -> BlackKing]

\* m[k] of a Go map: the zero value when the key is missing.
MapGet(m, k, zero) == IF k \in DOMAIN m THEN m[k] ELSE zero

\* ------------------------------------------------------- the FEN regexp
\* ^([rnbqkpRNBQKP1-8]{1,8}/){7}[rnbqkpRNBQKP1-8]{1,8}$

\* A character class that also lets the digits 0 and 9 through.
FENClassAllDigits ==
  {"r", "n", "b", "q", "k", "p", "R", "N", "B", "Q", "K", "P",
   "0", "1", "2", "3", "4", "5", "6", "7", "8", "9"}

\* [rnbqkpRNBQKP1-8]
FENClass ==
  {"r", "n", "b", "q", "k", "p", "R", "N", "B", "Q", "K", "P",
   "1", "2", "3", "4", "5", "6", "7", "8"}

\* A group repeated {8} instead of {7}.
FENGroupsOffByOne == 7 + 1

\* The {7} of the repeated group "row followed by a slash".
FENGroups == 7

\* The {1,8} bound on the length of a row.
FENMaxRun == 8

\* The regexp as the automaton it denotes: g groups closed so far, n
\* characters of the class read since the last slash.  The class does not
\* hold "/", so the automaton is deterministic.  ^ and $ (no flags) anchor
\* at the start and the end of the text.
RECURSIVE FENScan(_, _, _, _)
FENScan(s, k, g, n) ==
  IF k > Len(s) THEN g = FENGroups /\ n >= 1
  ELSE IF s[k] \in FENClass THEN n < FENMaxRun /\ FENScan(s, k + 1, g, n + 1)
  ELSE IF s[k] = "/" THEN n >= 1 /\ g < FENGroups /\ FENScan(s, k + 1, g + 1, 0)
  ELSE FALSE

\* FEN.MatchString(board)
FENMatch(s) == FENScan(s, 1, 0, 0)

\* ------------------------------------------------- library functions

\* strings.Split(s, "/"): the substrings between the separators; a string
\* without separator (the empty string too) gives one segment.
RECURSIVE SplitFrom(_, _, _, _)
SplitFrom(s, k, cur, acc) ==
  IF k > Len(s) THEN Append(acc, cur)
  ELSE IF s[k] = "/" THEN SplitFrom(s, k + 1, <<>>, Append(acc, cur))
  ELSE SplitFrom(s, k + 1, Append(cur, s[k]), acc)

Split(s) == SplitFrom(s, 1, <<>>, <<>>)

\* strconv.Atoi(string(char)) of a one-character string: the digit's value,
\* or 0 and an error (ok = FALSE) for anything that is not a digit.
Atoi(c) ==
  CASE c = "0" -> [val |-> 0, ok |-> TRUE]
    [] c = "1" -> [val |-> 1, ok |-> TRUE]
    [] c = "2" -> [val |-> 2, ok |-> TRUE]
    [] c = "3" -> [val |-> 3, ok |-> TRUE]
    [] c = "4" -> [val |-> 4, ok |-> TRUE]
    [] c = "5" -> [val |-> 5, ok |-> TRUE]
    [] c = "6" -> [val |-> 6, ok |-> TRUE]
    [] c = "7" -> [val |-> 7, ok |-> TRUE]
    [] c = "8" -> [val |-> 8, ok |-> TRUE]
    [] c = "9" -> [val |-> 9, ok |-> TRUE]
    [] OTHER -> [val |-> 0, ok |-> FALSE]

\* for i := 0; i < blanks; i++ { rowPieces = append(rowPieces, Empty) }
RECURSIVE AppendBlanks(_, _)
AppendBlanks(rp, blanks) ==
  IF blanks <= 0 THEN rp ELSE AppendBlanks(Append(rp, Empty), blanks - 1)

\* One iteration of the loop over the characters of a segment: the row
\* under construction after `char` was consumed, given the vocabulary.
ExpandChar(chars, rp, char) ==
  LET piece == MapGet(chars, char, Empty) IN
  IF piece = Empty THEN AppendBlanks(rp, Atoi(char).val)
  ELSE Append(rp, piece)

\* ------------------------------------------------------ Board and heap

\* The dimension of type Board struct { Pieces [8][8]Piece }.
BoardSize == 8

\* The cell count a row must expand to: len(rowPieces) != 8.
RowCells == 8

\* The bounds of the two loops of render: row < 8, column < 8.
Rows == 8
Columns == 8

\* The side of a tile and of the canvas, in pixels.
TileSize == 64
CanvasSize == 512

Idx == 0 .. (BoardSize - 1)

\* [8][8]Piece{}: every cell at Piece's zero value.
ZeroPieces == [r \in Idx |-> [c \in Idx |-> Empty]]

Nil == <<>>

\* echo.NewHTTPError(400, "Invalid FEN")
InvalidFEN == <<[code |-> 400, message |-> "Invalid FEN"]>>

\* An allocator that hands out the same object to every caller.
SharedAddr(heap) == 1

\* The address of a fresh object: one no live object has.
NewAddr(heap) == CHOOSE a \in DOMAIN heap : ~heap[a].alloc

\* A copy that stores the row back to front.
CopyReversed(dst, src) ==
  [k \in Idx |-> IF k < Len(src) THEN src[Len(src) - k] ELSE dst[k]]

\* copy(dst[:], src) for an [8]Piece dst: min(len(dst), len(src)) elements.
Copy(dst, src) ==
  [k \in Idx |-> IF k < Len(src) THEN src[k + 1] ELSE dst[k]]

\* A failing validate that hands out the board it was filling.
FailKeepingBoard(res) == [b |-> res, err |-> InvalidFEN]

\* return nil, echo.NewHTTPError(400, "Invalid FEN")
Fail(res) == [b |-> 0, err |-> InvalidFEN]

\* return result, nil
Succeed(res) == [b |-> res, err |-> Nil]

\* ----------------------------------------------------------- drawing

\* image.Rect(x0, y0, x1, y1): the pixels x0 <= x < x1, y0 <= y < y1.
Rect(x0, y0, x1, y1) == [x0 |-> x0, y0 |-> y0, x1 |-> x1, y1 |-> y1]

Max(a, b) == IF a >= b THEN a ELSE b
Min(a, b) == IF a <= b THEN a ELSE b

\* r.Intersect(s), as draw.Draw clips its rectangle to the destination.
Intersect(r, s) ==
  Rect(Max(r.x0, s.x0), Max(r.y0, s.y0), Min(r.x1, s.x1), Min(r.y1, s.y1))

IsEmptyRect(r) == r.x0 >= r.x1 \/ r.y0 >= r.y1

InRect(r, x, y) == r.x0 <= x /\ x < r.x1 /\ r.y0 <= y /\ y < r.y1

\* A tile rectangle with row and column exchanged.
TileRectTransposed(row, column) ==
  Rect(row * TileSize, column * TileSize,
       (row * TileSize) + TileSize, (column * TileSize) + TileSize)

\* image.Rect(column*64, row*64, (column*64)+64, (row*64)+64)
TileRect(row, column) ==
  Rect(column * TileSize, row * TileSize,
       (column * TileSize) + TileSize, (row * TileSize) + TileSize)

\* A parity that starts with a light tile.
TileColourShifted(row, column) == (row + column + 1) % 2

\* tileColour := (row + column) % 2
TileColour(row, column) == (row + column) % 2

\* image.White and color.RGBA{0x4f, 0x4f, 0x4f, 0xff}
White == "ffffffff"
Dark == "4f4f4fff"

\* image.NewRGBA(image.Rect(0, 0, 512, 512)): a canvas is its bounds and the
\* draw operations applied to it so far, from which every pixel follows.
NewRGBA(bounds) == [alloc |-> TRUE, bounds |-> bounds, log |-> <<>>]

NoCanvas == [alloc |-> FALSE, bounds |-> Rect(0, 0, 0, 0), log |-> <<>>]

\* draw.Draw(dst, r, src, image.Point{}, op): r is clipped to dst's bounds;
\* an empty rectangle draws nothing.
Draw(dst, r, src, op) ==
  LET c == Intersect(r, dst.bounds) IN
  IF IsEmptyRect(c) THEN dst
  ELSE [dst EXCEPT !.log = Append(@, [r |-> c, src |-> src, op |-> op])]

\* What pixel (x, y) of a canvas holds: the sources composited there, bottom
\* first.  draw.Src replaces what was there, draw.Over lays its source on top.
RECURSIVE LayersFrom(_, _, _, _, _)
LayersFrom(log, k, x, y, acc) ==
  IF k > Len(log) THEN acc
  ELSE IF ~InRect(log[k].r, x, y) THEN LayersFrom(log, k + 1, x, y, acc)
  ELSE IF log[k].op = "Src" THEN LayersFrom(log, k + 1, x, y, <<log[k].src>>)
  ELSE LayersFrom(log, k + 1, x, y, Append(acc, log[k].src))

Layers(canvas, x, y) == LayersFrom(canvas.log, 1, x, y, <<>>)

\* if piece == Empty { continue }
SkipsOverlay(piece) == piece = Empty

\* The body of the double loop of render for one cell: the canvas after the
\* cell's tile was painted and its piece composited.  A piece that misses
\* pieceImages gives the nil image, on which draw.Draw panics.
PaintCell(canvas, images, piece, row, column) ==
  LET bg == IF TileColour(row, column) = 0
            THEN Draw(canvas, TileRect(row, column), Dark, "Src")
            ELSE canvas
  IN IF SkipsOverlay(piece) THEN [canvas |-> bg, panic |-> FALSE]
     ELSE IF MapGet(images, piece, NilImage) = NilImage
          THEN [canvas |-> bg, panic |-> TRUE]
          ELSE [canvas |-> Draw(bg, TileRect(row, column),
                                MapGet(images, piece, NilImage), "Over"),
                panic |-> FALSE]

\* ------------------------------------------------------------- inputs

Row8 == <<"8">>

EmptyRows == [k \in 1..8 |-> Row8]

StartRows ==
  << <<"r", "n", "b", "q", "k", "b", "n", "r">>,
     <<"p", "p", "p", "p", "p", "p", "p", "p">>,
     Row8, Row8, Row8, Row8,
     <<"P", "P", "P", "P", "P", "P", "P", "P">>,
     <<"R", "N", "B", "Q", "K", "B", "N", "R">> >>

\* Segments that expand to 8 cells, segments that match the pattern and
\* expand to another count, and segments the pattern refuses.
SegPool ==
  { <<"4", "4">>, <<"1", "1", "1", "1", "1", "1", "1", "1">>,
    <<"4", "k", "3">>, <<"p", "6", "P">>, <<"Q", "2", "n", "1", "B", "1", "r">>,
    <<"8", "8">>, <<"7">>, <<"4", "k", "4">>, <<"K">>,
    <<>>, <<"9">>, <<"0", "8">>, <<"a", "7">>, <<"x", "8">>,
    <<"p", "p", "p", "p", "p", "p", "p", "p", "p">>, <<"8", " ">> }

RECURSIVE JoinFrom(_, _)
JoinFrom(rows, k) ==
  IF k > Len(rows) THEN <<>>
  ELSE IF k = Len(rows) THEN rows[k]
  ELSE rows[k] \o <<"/">> \o JoinFrom(rows, k + 1)

\* The notation whose segments are `rows`.
Join(rows) == JoinFrom(rows, 1)

\* A base notation with the segments at `at` replaced as `e` says.
Edited(base, e) ==
  [k \in 1..Len(base) |-> IF k \in DOMAIN e THEN e[k] ELSE base[k]]

\* The segments an input may replace: the first, the last and two between.
EditRows == {1, 3, 6, 8}

EditSets == {at \in SUBSET EditRows : Cardinality(at) <= MaxEdits}

EditedNotations ==
  {Join(Edited(base, e)) :
     base \in {EmptyRows, StartRows},
     e \in UNION {[at -> SegPool] : at \in EditSets}}

\* Notations of another shape: the empty string, 7 and 9 segments, a
\* separator or a line break at either end, a full FEN record's next field.
OddNotations ==
  { <<>>,
    Join([k \in 1..7 |-> Row8]),
    Join([k \in 1..9 |-> Row8]),
    Join(EmptyRows) \o <<"/">>,
    <<"/">> \o Join(EmptyRows),
    Join(StartRows) \o <<"\n">>,
    Join(StartRows) \o <<" ", "w">> }

Inputs == EditedNotations \cup OddNotations

\* The inputs of concurrent requests: two boards that differ, a notation the
\* row count check refuses, and one the pattern refuses.
ConcInputs ==
  { Join(Edited(EmptyRows, (1 :> <<"4", "k", "3">>))),
    Join(Edited(EmptyRows, (8 :> <<"Q", "2", "n", "1", "B", "1", "r">>))),
    Join(Edited(StartRows, (2 :> <<"8", "8">>))),
    <<>> }

\* -------------------------------------------------------------- state

Reqs == 1 .. NumReq

VARIABLES
  pieceChars,   \* the symbol vocabulary, shared by all requests
  pieceImages,  \* the asset store, shared by all requests
  stdout,       \* the requests whose "Rendered board" line was printed
  boards,       \* the heap of Board objects, by address
  canvases,     \* the heap of image.RGBA objects, by address
  pc,           \* where each invocation of render stands
  board,        \* render's and validate's parameter, the notation
  result,       \* validate: the *Board under construction
  segments,     \* validate: strings.Split(board, "/")
  vrow,         \* validate: the index `row` of the loop over segments
  rowPieces,    \* validate: the cells of the current row
  charIdx,      \* validate: the position of `char` in the segment
  b,            \* render: the *Board validate returned
  err,          \* render: the error validate returned
  img,          \* render: the canvas
  row,          \* render: the loop variable row
  column,       \* render: the loop variable column
  response      \* what the invocation wrote to its echo.Context

vars ==
  <<pieceChars, pieceImages, stdout, boards, canvases, pc, board, result,
    segments, vrow, rowPieces, charIdx, b, err, img, row, column, response>>

shared == <<pieceChars, pieceImages>>
validateLocals == <<result, segments, vrow, rowPieces, charIdx>>
renderLocals == <<img, row, column>>

NoResponse ==
  [status |-> 0, contentType |-> "", timed |-> FALSE,
   text |-> Nil, png |-> 0]

\* The state once main has registered the handler: the package variables
\* are initialised, no object is allocated, and the requests in `active`
\* have just entered render with a notation of `inputs`.
InitWith(active, inputs) ==
  /\ pieceChars = PieceChars
  /\ pieceImages = PieceImages
  /\ stdout = <<>>
  /\ boards = [a \in Reqs |-> [alloc |-> FALSE, Pieces |-> ZeroPieces]]
  /\ canvases = [a \in Reqs |-> NoCanvas]
  /\ pc = [i \in Reqs |-> IF i \in active THEN "validate" ELSE "idle"]
  /\ board \in {[i \in Reqs |-> IF i \in active THEN f[i] ELSE <<>>] :
                  f \in [active -> inputs]}
  /\ result = [i \in Reqs |-> 0]
  /\ segments = [i \in Reqs |-> <<>>]
  /\ vrow = [i \in Reqs |-> 0]
  /\ rowPieces = [i \in Reqs |-> <<>>]
  /\ charIdx = [i \in Reqs |-> 0]
  /\ b = [i \in Reqs |-> 0]
  /\ err = [i \in Reqs |-> Nil]
  /\ img = [i \in Reqs |-> 0]
  /\ row = [i \in Reqs |-> 0]
  /\ column = [i \in Reqs |-> 0]
  /\ response = [i \in Reqs |-> NoResponse]

Init == InitWith({1}, Inputs)

ConcInit == InitWith(Reqs, ConcInputs)

\* ------------------------------------------------------------ validate

\* validate returns to render: b, err := validate(board).
Return(i, ret) ==
  /\ b' = [b EXCEPT ![i] = ret.b]
  /\ err' = [err EXCEPT ![i] = ret.err]
  /\ pc' = [pc EXCEPT ![i] = "returned"]

\* Lines 106-114: the pattern check; on a match the Board is allocated and
\* the notation split.
Match(i) ==
  /\ pc[i] = "validate"
  /\ IF ~FENMatch(board[i])
     THEN /\ Return(i, Fail(result[i]))
          /\ UNCHANGED <<boards, validateLocals>>
     ELSE LET a == NewAddr(boards) IN
          /\ boards' = [boards EXCEPT ![a] = [alloc |-> TRUE, Pieces |-> ZeroPieces]]
          /\ result' = [result EXCEPT ![i] = a]
          /\ segments' = [segments EXCEPT ![i] = Split(board[i])]
          /\ vrow' = [vrow EXCEPT ![i] = 0]
          /\ pc' = [pc EXCEPT ![i] = "row"]
          /\ UNCHANGED <<rowPieces, charIdx, b, err>>
  /\ UNCHANGED <<shared, stdout, canvases, board, renderLocals, response>>

\* Lines 115-116 and 137: the head of the loop over the segments.
RowHead(i) ==
  /\ pc[i] = "row"
  /\ IF vrow[i] < Len(segments[i])
     THEN /\ rowPieces' = [rowPieces EXCEPT ![i] = <<>>]
          /\ charIdx' = [charIdx EXCEPT ![i] = 1]
          /\ pc' = [pc EXCEPT ![i] =
                      IF Len(segments[i][vrow[i] + 1]) = 0 THEN "check" ELSE "char"]
          /\ UNCHANGED <<b, err>>
     ELSE /\ Return(i, Succeed(result[i]))
          /\ UNCHANGED <<rowPieces, charIdx>>
  /\ UNCHANGED <<shared, stdout, boards, canvases, board, result, segments,
                 vrow, renderLocals, response>>

\* Lines 117-128: one character of the segment.
CharStep(i) ==
  /\ pc[i] = "char"
  /\ LET segment == segments[i][vrow[i] + 1] IN
     /\ rowPieces' = [rowPieces EXCEPT ![i] =
                        ExpandChar(pieceChars, @, segment[charIdx[i]])]
     /\ charIdx' = [charIdx EXCEPT ![i] = @ + 1]
     /\ pc' = [pc EXCEPT ![i] =
                 IF charIdx[i] + 1 > Len(segment) THEN "check" ELSE "char"]
  /\ UNCHANGED <<shared, stdout, boards, canvases, board, result, segments,
                 vrow, b, err, renderLocals, response>>

\* Lines 130-134: the cell count check and the copy into the Board.  An
\* index outside the array panics.
RowCheck(i) ==
  /\ pc[i] = "check"
  /\ IF Len(rowPieces[i]) # RowCells
     THEN /\ Return(i, Fail(result[i]))
          /\ UNCHANGED <<boards, vrow>>
     ELSE IF vrow[i] \notin Idx
     THEN /\ pc' = [pc EXCEPT ![i] = "panic"]
          /\ UNCHANGED <<boards, vrow, b, err>>
     ELSE /\ boards' = [boards EXCEPT ![result[i]].Pieces[vrow[i]] =
                          Copy(@, rowPieces[i])]
          /\ vrow' = [vrow EXCEPT ![i] = @ + 1]
          /\ pc' = [pc EXCEPT ![i] = "row"]
          /\ UNCHANGED <<b, err>>
  /\ UNCHANGED <<shared, stdout, canvases, board, result, segments,
                 rowPieces, charIdx, renderLocals, response>>

\* ------------------------------------------------------------- render

\* A handler that goes on after a failed validation.
NeverFailed(e) == FALSE

\* if err != nil
Failed(e) == e # Nil

\* Lines 144-149: the error answer, or the white canvas.
AfterValidate(i) ==
  /\ pc[i] = "returned"
  /\ IF Failed(err[i])
     THEN /\ response' = [response EXCEPT ![i] =
                  [status |-> 400, contentType |-> "text/plain",
                   timed |-> FALSE, text |-> err[i], png |-> 0]]
          /\ pc' = [pc EXCEPT ![i] = "done"]
          /\ UNCHANGED <<canvases, renderLocals>>
     ELSE LET a == NewAddr(canvases) IN
          /\ canvases' = [canvases EXCEPT ![a] =
                  Draw(NewRGBA(Rect(0, 0, CanvasSize, CanvasSize)),
                       Rect(0, 0, CanvasSize, CanvasSize), White, "Src")]
          /\ img' = [img EXCEPT ![i] = a]
          /\ row' = [row EXCEPT ![i] = 0]
          /\ column' = [column EXCEPT ![i] = 0]
          /\ pc' = [pc EXCEPT ![i] = "tile"]
          /\ UNCHANGED response
  /\ UNCHANGED <<shared, stdout, boards, board, validateLocals, b, err>>

\* Lines 151-173: one cell of the double loop.  Reading through a nil
\* *Board, or drawing the nil image, panics.
Tile(i) ==
  /\ pc[i] = "tile"
  /\ IF b[i] = 0
     THEN /\ pc' = [pc EXCEPT ![i] = "panic"]
          /\ UNCHANGED <<canvases, row, column>>
     ELSE LET piece == boards[b[i]].Pieces[row[i]][column[i]]
              cell == PaintCell(canvases[img[i]], pieceImages, piece,
                                row[i], column[i])
              last == column[i] + 1 >= Columns
          IN /\ canvases' = [canvases EXCEPT ![img[i]] = cell.canvas]
             /\ IF cell.panic
                THEN /\ pc' = [pc EXCEPT ![i] = "panic"]
                     /\ UNCHANGED <<row, column>>
                ELSE /\ column' = [column EXCEPT ![i] = IF last THEN 0 ELSE @ + 1]
                     /\ row' = [row EXCEPT ![i] = IF last THEN @ + 1 ELSE @]
                     /\ pc' = [pc EXCEPT ![i] =
                                 IF last /\ row[i] + 1 >= Rows
                                 THEN "encode" ELSE "tile"]
  /\ UNCHANGED <<shared, stdout, boards, board, validateLocals, b, err, img,
                 response>>

\* Lines 175-183: the headers, the PNG body, the line on standard output.
Encode(i) ==
  /\ pc[i] = "encode"
  /\ response' = [response EXCEPT ![i] =
          [status |-> 200, contentType |-> "image/png", timed |-> TRUE,
           text |-> Nil, png |-> img[i]]]
  /\ stdout' = Append(stdout, i)
  /\ pc' = [pc EXCEPT ![i] = "done"]
  /\ UNCHANGED <<shared, boards, canvases, board, validateLocals, b, err,
                 renderLocals>>

Step(i) ==
  \/ Match(i)
  \/ RowHead(i)
  \/ CharStep(i)
  \/ RowCheck(i)
  \/ AfterValidate(i)
  \/ Tile(i)
  \/ Encode(i)

Next == \E i \in Reqs : Step(i)

\* One request at a time, over the whole set of inputs.
Spec == Init /\ [][Next]_vars

\* The same, with the scheduling of goroutines: a handler that can take a
\* step eventually takes it.
LiveSpec == Init /\ [][Next]_vars /\ \A i \in Reqs : WF_vars(Step(i))

\* Every request slot in flight at once, interleaved step by step.
ConcSpec == ConcInit /\ [][Next]_vars

\* ------------------------------------------- validate and render, whole

\* The loop over the characters of one segment, run to its end.
RECURSIVE ExpandFrom(_, _, _, _)
ExpandFrom(chars, segment, k, rp) ==
  IF k > Len(segment) THEN rp
  ELSE ExpandFrom(chars, segment, k + 1, ExpandChar(chars, rp, segment[k]))

ExpandSegment(chars, segment) == ExpandFrom(chars, segment, 1, <<>>)

\* The loop over the segments, run from row r to its end: ok and the
\* Board's content on success.
RECURSIVE ValidateRows(_, _, _, _)
ValidateRows(chars, segs, r, pieces) ==
  IF r >= Len(segs) THEN [ok |-> TRUE, panic |-> FALSE, Pieces |-> pieces]
  ELSE LET rp == ExpandSegment(chars, segs[r + 1]) IN
       IF Len(rp) # RowCells
       THEN [ok |-> FALSE, panic |-> FALSE, Pieces |-> ZeroPieces]
       ELSE IF r \notin Idx
       THEN [ok |-> FALSE, panic |-> TRUE, Pieces |-> ZeroPieces]
       ELSE ValidateRows(chars, segs, r + 1,
                         [pieces EXCEPT ![r] = Copy(@, rp)])

\* validate(board) run alone, from its first line to its return.
ValidateFn(chars, s) ==
  IF ~FENMatch(s) THEN [ok |-> FALSE, panic |-> FALSE, Pieces |-> ZeroPieces]
  ELSE ValidateRows(chars, Split(s), 0, ZeroPieces)

\* The double loop of render run alone from cell k (row-major) to its end.
RECURSIVE PaintFrom(_, _, _, _)
PaintFrom(canvas, images, pieces, k) ==
  IF k >= Rows * Columns THEN canvas
  ELSE PaintFrom(
         PaintCell(canvas, images, pieces[k \div Columns][k % Columns],
                   k \div Columns, k % Columns).canvas,
         images, pieces, k + 1)

\* The canvas render paints for a Board: lines 148-173.
RenderFn(images, pieces) ==
  PaintFrom(Draw(NewRGBA(Rect(0, 0, CanvasSize, CanvasSize)),
                 Rect(0, 0, CanvasSize, CanvasSize), White, "Src"),
            images, pieces, 0)

\* ===================================================================
\* The properties.  The vocabulary, the segments of a notation, their
\* expansion and the tile geometry are restated here independently of the
\* definitions above, which are the program.
\* ===================================================================

\* validate has returned to render in invocation i.
Returned(i) == pc[i] \in {"returned", "tile", "encode", "done"}

\* Invocation i stands at the return of validate, having accepted.
Accepted(i) == pc[i] = "returned" /\ err[i] = Nil

Rejected(i) == Returned(i) /\ err[i] # Nil

\* render has painted every cell of invocation i's Board.
Painted(i) == pc[i] = "encode"

Letters == {"P", "N", "B", "R", "Q", "K", "p", "n", "b", "r", "q", "k"}

Digits == {"1", "2", "3", "4", "5", "6", "7", "8"}

DigitValue(c) ==
  CASE c = "1" -> 1 [] c = "2" -> 2 [] c = "3" -> 3 [] c = "4" -> 4
    [] c = "5" -> 5 [] c = "6" -> 6 [] c = "7" -> 7 [] c = "8" -> 8

DigitChar(n) ==
  CASE n = 1 -> "1" [] n = 2 -> "2" [] n = 3 -> "3" [] n = 4 -> "4"
    [] n = 5 -> "5" [] n = 6 -> "6" [] n = 7 -> "7" [] n = 8 -> "8"

\* The PieceKind of a letter: uppercase is white, lowercase is black.
KindOf(c) ==
  CASE c = "P" -> WhitePawn [] c = "N" -> WhiteKnight [] c = "B" -> WhiteBishop
    [] c = "R" -> WhiteRook [] c = "Q" -> WhiteQueen [] c = "K" -> WhiteKing
    [] c = "p" -> BlackPawn [] c = "n" -> BlackKnight [] c = "b" -> BlackBishop
    [] c = "r" -> BlackRook [] c = "q" -> BlackQueen [] c = "k" -> BlackKing

LetterOf(p) == CHOOSE c \in Letters : KindOf(c) = p

\* The image of a PieceKind in the asset store.
ImageOf(p) ==
  CASE p = WhitePawn -> "pawn_white.png" [] p = WhiteKnight -> "knight_white.png"
    [] p = WhiteBishop -> "bishop_white.png" [] p = WhiteRook -> "rook_white.png"
    [] p = WhiteQueen -> "queen_white.png" [] p = WhiteKing -> "king_white.png"
    [] p = BlackPawn -> "pawn_black.png" [] p = BlackKnight -> "knight_black.png"
    [] p = BlackBishop -> "bishop_black.png" [] p = BlackRook -> "rook_black.png"
    [] p = BlackQueen -> "queen_black.png" [] p = BlackKing -> "king_black.png"

\* The positions of the separators of a notation, and its segments: what
\* lies between one separator (or the start) and the next (or the end).
Slashes(s) == {k \in 1..Len(s) : s[k] = "/"}

SlashAt(s, j) ==
  IF j = 0 THEN 0
  ELSE IF j > Cardinality(Slashes(s)) THEN Len(s) + 1
  ELSE CHOOSE k \in Slashes(s) :
         Cardinality({m \in Slashes(s) : m < k}) = j - 1

SegmentOf(s, j) == SubSeq(s, SlashAt(s, j - 1) + 1, SlashAt(s, j) - 1)

SegmentCount(s) == Cardinality(Slashes(s)) + 1

\* The cells a segment of letters and digits expands to, left to right.
RECURSIVE Expansion(_)
Expansion(seg) ==
  IF seg = <<>> THEN <<>>
  ELSE (IF Head(seg) \in Letters THEN <<KindOf(Head(seg))>>
        ELSE [k \in 1..DigitValue(Head(seg)) |-> Empty])
       \o Expansion(Tail(seg))

WellFormedSegment(seg) ==
  /\ seg # <<>>
  /\ \A k \in 1..Len(seg) : seg[k] \in Letters \cup Digits
  /\ Len(Expansion(seg)) = 8

WellFormed(s) ==
  /\ SegmentCount(s) = 8
  /\ \A j \in 1..8 : WellFormedSegment(SegmentOf(s, j))

\* C1: validate returns a Board and no error exactly for the notations of 8
\* non-empty segments of piece letters and digits 1-8 that each expand to 8
\* cells, and the error with no Board for every other string.
C1_AcceptsExactlyWellFormed ==
  \A i \in Reqs : pc[i] = "returned" =>
    /\ (err[i] = Nil) <=> WellFormed(board[i])
    /\ (b[i] # 0) <=> WellFormed(board[i])

\* A notation that passes the pattern was refused by the cell count.
C1_Witness ==
  /\ Rejected(1) /\ result[1] # 0
  /\ \E j \in 1..8 : SegmentOf(board[1], j) = <<"8", "8">>

\* C2: row r of the Board of an accepted notation is the left-to-right
\* expansion of segment r, letter by letter and digit by digit.
C2_RowsAreExpansions ==
  \A i \in Reqs : Accepted(i) =>
    \A r \in 0..7 :
      LET cells == Expansion(SegmentOf(board[i], r + 1)) IN
      /\ Len(cells) = 8
      /\ \A c \in 0..7 : boards[b[i]].Pieces[r][c] = cells[c + 1]

\* An accepted notation with a segment of several digits and letters.
C2_Witness ==
  /\ Accepted(1)
  /\ SegmentOf(board[1], 3) = <<"Q", "2", "n", "1", "B", "1", "r">>
  /\ SegmentOf(board[1], 1) = <<"r", "n", "b", "q", "k", "b", "n", "r">>

\* C3: every rejection, by the pattern or by the cell count, returns the
\* HTTP error 400 "Invalid FEN" and a nil Board, also when rows were
\* already copied into the Board under construction.
C3_UniformFailure ==
  \A i \in Reqs : Rejected(i) =>
    /\ err[i] = <<[code |-> 400, message |-> "Invalid FEN"]>>
    /\ b[i] = 0

\* A row failed the count after rows with pieces were copied.
C3_Witness ==
  /\ Rejected(1) /\ result[1] # 0 /\ vrow[1] >= 1
  /\ boards[result[1]].Pieces[0][0] # Empty

\* The notation of a Board: row-major, a run of Empty cells as one digit,
\* another cell as its letter, rows joined by "/".
RECURSIVE SerializeRow(_, _, _)
SerializeRow(cells, c, run) ==
  LET flush == IF run > 0 THEN <<DigitChar(run)>> ELSE <<>> IN
  IF c > 7 THEN flush
  ELSE IF cells[c] = Empty THEN SerializeRow(cells, c + 1, run + 1)
  ELSE flush \o <<LetterOf(cells[c])>> \o SerializeRow(cells, c + 1, 0)

RECURSIVE SerializeFrom(_, _)
SerializeFrom(pieces, r) ==
  IF r = 7 THEN SerializeRow(pieces[r], 0, 0)
  ELSE SerializeRow(pieces[r], 0, 0) \o <<"/">> \o SerializeFrom(pieces, r + 1)

Serialize(pieces) == SerializeFrom(pieces, 0)

\* C4: the notation serialized from the Board of an accepted notation is
\* accepted and yields the same Board, cell for cell.
C4_RoundTrip ==
  \A i \in Reqs : Accepted(i) =>
    LET again == ValidateFn(pieceChars, Serialize(boards[b[i]].Pieces)) IN
    /\ again.ok
    /\ again.Pieces = boards[b[i]].Pieces

\* An accepted notation that is not the serialization of its Board.
C4_Witness ==
  /\ Accepted(1)
  /\ SegmentOf(board[1], 6) = <<"4", "4">>
  /\ Serialize(boards[b[1]].Pieces) # board[1]
  /\ SegmentOf(Serialize(boards[b[1]].Pieces), 1)
       = <<"r", "n", "b", "q", "k", "b", "n", "r">>

\* C5: validation precedes rendering, and rendering is never entered for a
\* refused notation: the answer is then status 400 with the error as plain
\* text, and no canvas is allocated, nothing is drawn, and neither PNG bytes
\* nor the image/png header are written.
C5_NoRenderOnInvalid ==
  \A i \in Reqs :
    /\ pc[i] \in {"validate", "row", "char", "check", "returned"} =>
         img[i] = 0 /\ response[i].status = 0 /\ response[i].png = 0
    /\ Rejected(i) =>
         /\ pc[i] \in {"returned", "done"}
         /\ img[i] = 0
         /\ \A a \in DOMAIN canvases :
              canvases[a].alloc => \E j \in Reqs : j # i /\ img[j] = a
         /\ response[i].png = 0
         /\ response[i].contentType # "image/png"
         /\ pc[i] = "done" =>
              /\ response[i].status = 400
              /\ response[i].text = err[i]
    /\ (img[i] # 0 \/ response[i].png # 0 \/ pc[i] \in {"tile", "encode"}) =>
         err[i] = Nil /\ b[i] # 0

\* A notation refused by the cell count was answered with 400.
C5_Witness ==
  /\ pc[1] = "done" /\ response[1].status = 400
  /\ result[1] # 0 /\ vrow[1] = 7

Tiles == (0..7) \X (0..7)

\* The pixels of tile (r, c) the claims look at: its first, its last and its
\* centre.  Every draw of render is a rectangle, so one that holds the
\* first and the last pixel of a tile holds the tile.
TilePixels(r, c) ==
  { <<c * 64, r * 64>>, <<c * 64 + 63, r * 64 + 63>>,
    <<c * 64 + 32, r * 64 + 32>> }

\* The background of a pixel: the bottom of what was composited there.
Background(canvas, px) == Head(Layers(canvas, px[1], px[2]))

\* The rectangle of tile (r, c): 64x64 pixels from (c*64, r*64).
TileArea(r, c) ==
  [x0 |-> c * 64, y0 |-> r * 64, x1 |-> c * 64 + 64, y1 |-> r * 64 + 64]

\* C6: once render has painted a valid Board, tile (row, column) has the dark
\* background exactly when (row + column) mod 2 = 0 and the white one
\* otherwise, every dark paint covers exactly one tile, tile (0,0) is dark,
\* 32 tiles are dark, and the 64 tiles cover the 512x512 canvas one pixel
\* each, whatever the pieces.
C6_TileParity ==
  \A i \in Reqs : Painted(i) =>
    LET canvas == canvases[img[i]]
        bg == [t \in Tiles |->
                 {Background(canvas, px) : px \in TilePixels(t[1], t[2])}]
    IN
    /\ canvas.bounds = [x0 |-> 0, y0 |-> 0, x1 |-> 512, y1 |-> 512]
    /\ \A t \in Tiles :
         /\ bg[t] = {"4f4f4fff"} <=> (t[1] + t[2]) % 2 = 0
         /\ bg[t] = {"ffffffff"} <=> (t[1] + t[2]) % 2 = 1
    /\ \A k \in 1..Len(canvas.log) :
         canvas.log[k].src = "4f4f4fff" =>
           \E t \in Tiles : canvas.log[k].r = TileArea(t[1], t[2])
    /\ bg[<<0, 0>>] = {"4f4f4fff"}
    /\ Cardinality({t \in Tiles : bg[t] = {"4f4f4fff"}}) = 32
    /\ \A x \in canvas.bounds.x0 .. (canvas.bounds.x1 - 1) :
         Cardinality({c \in 0..7 : TileArea(0, c).x0 <= x /\ x < TileArea(0, c).x1}) = 1
    /\ \A y \in canvas.bounds.y0 .. (canvas.bounds.y1 - 1) :
         Cardinality({r \in 0..7 : TileArea(r, 0).y0 <= y /\ y < TileArea(r, 0).y1}) = 1

\* A painted Board with pieces on a dark and on a white tile.
C6_Witness ==
  /\ Painted(1)
  /\ boards[b[1]].Pieces[0][0] # Empty
  /\ boards[b[1]].Pieces[0][1] # Empty

\* C9: render composites a piece image onto a cell's tile exactly when the
\* cell is not Empty; the image is the one of the cell's PieceKind, laid on
\* the tile at (column*64, row*64) over its background and nowhere else, and
\* no later paint covers it; the all-empty Board gets no piece at all.
C9_PieceOverlay ==
  \A i \in Reqs : Painted(i) =>
    LET canvas == canvases[img[i]]
        pieces == boards[b[i]].Pieces
        over == {k \in 1..Len(canvas.log) : canvas.log[k].op = "Over"}
        occupied == {t \in Tiles : pieces[t[1]][t[2]] # Empty}
        layers == [t \in Tiles |->
                     {Layers(canvas, px[1], px[2]) : px \in TilePixels(t[1], t[2])}]
    IN /\ \A t \in Tiles :
            layers[t] =
              { <<IF (t[1] + t[2]) % 2 = 0 THEN "4f4f4fff" ELSE "ffffffff">>
                \o (IF t \in occupied
                    THEN <<ImageOf(pieces[t[1]][t[2]])>> ELSE <<>>) }
       /\ \A k \in over :
            \E t \in occupied :
              /\ canvas.log[k].r = TileArea(t[1], t[2])
              /\ canvas.log[k].src = ImageOf(pieces[t[1]][t[2]])
       /\ Cardinality(over) = Cardinality(occupied)
       /\ occupied = {} => over = {}

\* A painted Board with a piece off the diagonal, on a white tile, and an
\* empty dark tile after it.
C9_Witness ==
  /\ Painted(1)
  /\ boards[b[1]].Pieces[2][3] = BlackKnight
  /\ boards[b[1]].Pieces[3][2] = Empty
  /\ boards[b[1]].Pieces[7][7] = WhiteRook

\* The all-empty Board was painted without a piece.
C9_EmptyBoardWitness ==
  /\ Painted(1) /\ boards[b[1]].Pieces = [r \in 0..7 |-> [c \in 0..7 |-> Empty]]

\* C10: past the pattern check the split has exactly 8 segments and the row
\* index stays in 0..7; a character that misses the vocabulary is a digit
\* 1-8, so its conversion succeeds and gives at least one cell; and a Board
\* row is written only from exactly 8 cells, all of them.
C10_ExpansionGuards ==
  \A i \in Reqs :
    /\ pc[i] \in {"row", "char", "check"} =>
         /\ Len(segments[i]) = 8
         /\ vrow[i] \in 0..8
         /\ pc[i] \in {"char", "check"} => vrow[i] \in 0..7
    /\ pc[i] = "char" =>
         LET char == segments[i][vrow[i] + 1][charIdx[i]] IN
         MapGet(pieceChars, char, Empty) = Empty =>
           /\ char \in Digits
           /\ Atoi(char).ok
           /\ Atoi(char).val \in 1..8
    /\ pc[i] = "row" /\ vrow[i] >= 1 =>
         /\ Len(rowPieces[i]) = 8
         /\ \A c \in 0..7 :
              boards[result[i]].Pieces[vrow[i] - 1][c] = rowPieces[i][c + 1]
    /\ pc[i] # "panic"

\* The last row is being expanded and its next character is a digit.
C10_Witness ==
  /\ pc[1] = "char" /\ vrow[1] = 7 /\ charIdx[1] = 2
  /\ segments[1][8] = <<"Q", "2", "n", "1", "B", "1", "r">>

\* Piece p stands on the Board of invocation i.
OnBoard(i, p) ==
  \E t \in Tiles : boards[b[i]].Pieces[t[1]][t[2]] = p

\* C7: for every Board validate returns, the loop of render starts at cell
\* (0,0), goes through the 64 cells in row-major order and ends; the asset
\* store has an image for each of the 12 non-empty kinds, so no cell is
\* drawn with the nil image and no invocation panics.
C7_RenderTotal ==
  /\ [](\A i \in Reqs :
          /\ pc[i] # "panic"
          /\ DOMAIN pieceImages = 1..12
          /\ \A p \in 1..12 : pieceImages[p] # "nil"
          /\ pc[i] = "tile" =>
               /\ b[i] # 0
               /\ row[i] \in 0..7 /\ column[i] \in 0..7
               /\ boards[b[i]].Pieces[row[i]][column[i]] \in 0..12)
  /\ [][\A i \in Reqs :
          /\ pc[i] # "tile" /\ pc'[i] = "tile" => row'[i] = 0 /\ column'[i] = 0
          /\ pc[i] = "tile" /\ pc'[i] = "tile" =>
               (row'[i] * 8) + column'[i] \in
                 {(row[i] * 8) + column[i], (row[i] * 8) + column[i] + 1}
          /\ pc[i] = "tile" /\ pc'[i] # "tile" =>
               pc'[i] = "encode" /\ row[i] = 7 /\ column[i] = 7]_vars
  /\ \A i \in Reqs : (pc[i] = "tile") ~> (pc[i] = "done")

\* The start position, with all 12 kinds on the Board, was rendered.
C7_Witness ==
  /\ pc[1] = "done" /\ response[1].status = 200
  /\ \A p \in 1..12 : OnBoard(1, p)

\* C8: under every interleaving the vocabulary and the asset store keep their
\* start-up values, no two invocations hold the same Board or the same
\* canvas, and each invocation ends as it does when run alone: the same
\* verdict, the same Board, the same painted canvas.
C8_NoInterference ==
  /\ pieceChars = [c \in Letters |-> KindOf(c)]
  /\ pieceImages = [p \in 1..12 |-> ImageOf(p)]
  /\ \A i \in Reqs, j \in Reqs : i # j =>
       /\ result[i] # 0 => result[i] # result[j]
       /\ img[i] # 0 => img[i] # img[j]
  /\ \A i \in Reqs : pc[i] \in {"encode", "done"} =>
       LET alone == ValidateFn(PieceChars, board[i]) IN
       /\ (err[i] = Nil) <=> alone.ok
       /\ alone.ok =>
            /\ boards[b[i]].Pieces = alone.Pieces
            /\ canvases[img[i]] = RenderFn(PieceImages, alone.Pieces)
            /\ pc[i] = "done" =>
                 response[i].status = 200 /\ response[i].png = img[i]
       /\ ~alone.ok =>
            b[i] = 0 /\ img[i] = 0 /\ response[i].status = 400

\* Request 1 is done with a picture of its own Board, which it allocated
\* after request 2 allocated the one it is still painting.
C8_Witness ==
  /\ pc[1] = "done" /\ response[1].status = 200
  /\ pc[2] = "tile" /\ row[2] = 3
  /\ result[1] = 2 /\ result[2] = 1
  /\ board[1] # board[2]

====
